---- MODULE Spec2Model ----
(***************************************************************************)
(* A model of src/src/data.py: the OHLCV pagination engine                 *)
(* (fetch_ohlcv_full), the row normalizer (_ohlcv_to_df), the timeframe    *)
(* policy (_near_now_delta) and the CSV cache it reads and writes.         *)
(*                                                                         *)
(* Instants.  The code keeps instants as epoch milliseconds.  Three years  *)
(* of milliseconds do not fit TLC's 32-bit integers, so an instant is the  *)
(* pair [h, ms]: whole hours since the epoch and milliseconds within the   *)
(* hour.  Every duration the code subtracts is a whole number of hours; the*)
(* only millisecond arithmetic is last_ms + 1.  'now' is kept to the       *)
(* millisecond.                                                            *)
(***************************************************************************)
EXTENDS Integers, Sequences, FiniteSets, TLC

VARIABLES
    cache_path,   \* the cache_path argument of every call: a path kind
    timeframe,    \* the timeframe argument: a sequence of characters
    clock,        \* the wall clock, dt.datetime.now(dt.timezone.utc)
    elapsed,      \* hours the clock has advanced since Init
    file,         \* the cache record at cache_path on disk
    pc,           \* position of the current fetch_ohlcv_full call
    exchange,     \* TRUE when the current (or last) call has run _make_exchange()
    since,        \* local 'since'
    all_rows,     \* local 'all_rows'
    df,           \* local 'df'
    outcome,      \* how the last finished call ended
    result,       \* the table the last finished call returned
    calls,        \* calls started so far
    requests,     \* adapter requests made by the current call
    received,     \* history: the non-empty pages the adapter returned, in order
    reqlog,       \* history: the 'since' of every adapter request of the call
    lastpage,     \* history: the last non-empty page, its cursor and the 'now' read after it
    file_at_call, \* history: the cache record when the current call started
    saved,        \* history: the table the last to_csv was given, and whether it completed
    norm_in,      \* normalizer harness: the raw rows given to _ohlcv_to_df
    norm_out,     \* normalizer harness: what _ohlcv_to_df gave for norm_in
    norm_again,   \* normalizer harness: what it gave for the rows of norm_out
    policy_out    \* policy harness: what _near_now_delta gave for timeframe

vars == <<cache_path, timeframe, clock, elapsed, file, pc, exchange, since,
          all_rows, df, outcome, result, calls, requests, received, reqlog,
          lastpage, file_at_call, saved, norm_in, norm_out, norm_again, policy_out>>

fetch_vars == <<cache_path, timeframe, clock, elapsed, file, pc, exchange, since,
                all_rows, df, outcome, result, calls, requests, received, reqlog,
                lastpage, file_at_call, saved>>

norm_vars == <<norm_in, norm_out, norm_again>>

policy_vars == <<policy_out>>

----------------------------------------------------------------------------
(* Bounds of the model.                                                    *)

MaxRequests == 3      \* adapter requests explored per call
MaxCalls == 2         \* calls of fetch_ohlcv_full per behaviour
MaxElapsed == 1       \* hours the clock may advance in a behaviour
MaxNormRows == 3      \* rows of a normalizer-harness input
MaxLabelLen == 3      \* characters of a policy-harness label
MaxLagMs == 400       \* ms the cursor may be behind now - 3 years, and never ahead

----------------------------------------------------------------------------
(* Instants and durations.                                                 *)

HourMs == 3600 * 1000

Inst(h, ms) == [h |-> h, ms |-> ms]

InstLeq(a, b) == a.h < b.h \/ (a.h = b.h /\ a.ms <= b.ms)

InstLt(a, b) == a.h < b.h \/ (a.h = b.h /\ a.ms < b.ms)

\* t + 1 ms
InstSucc(t) == IF t.ms + 1 = HourMs THEN Inst(t.h + 1, 0) ELSE Inst(t.h, t.ms + 1)

\* t - 1 ms
InstPred(t) == IF t.ms = 0 THEN Inst(t.h - 1, HourMs - 1) ELSE Inst(t.h, t.ms - 1)

\* t + n ms and t - n ms, for n of less than an hour
InstPlusMs(t, n) ==
    IF t.ms + n >= HourMs THEN Inst(t.h + 1, t.ms + n - HourMs) ELSE Inst(t.h, t.ms + n)

InstMinusMs(t, n) ==
    IF t.ms < n THEN Inst(t.h - 1, t.ms + HourMs - n) ELSE Inst(t.h, t.ms - n)

\* t - dt.timedelta(hours=n) and t + dt.timedelta(hours=n)
InstMinusHours(t, n) == Inst(t.h - n, t.ms)

InstPlusHours(t, n) == Inst(t.h + n, t.ms)

\* dt.timedelta(days=d, hours=h), in hours
timedelta(days, hours) == 24 * days + hours

Max(a, b) == IF a >= b THEN a ELSE b

----------------------------------------------------------------------------
(* config.py                                                               *)

YEARS_OF_HISTORY == 3

----------------------------------------------------------------------------
(* Field values.  A raw field is a number, a string or None; to_numeric    *)
(* yields a number, NaN or an infinity.  v is the number (0 where there is *)
(* none).                                                                  *)

Num(n) == [k |-> "num", v |-> n]         \* the number n
NumStr(n) == [k |-> "str", v |-> n]      \* the decimal text of n, e.g. "2"
InfStr == [k |-> "infstr", v |-> 0]      \* the text "inf"
Text == [k |-> "text", v |-> 0]          \* a text that is no number, e.g. "abc"
None == [k |-> "none", v |-> 0]          \* None
NaN == [k |-> "nan", v |-> 0]            \* float('nan')
Inf == [k |-> "inf", v |-> 0]            \* float('inf')

\* A raw timestamp field: epoch milliseconds, None, or a text that is no number.
MsTs(t) == [k |-> "ms", h |-> t.h, ms |-> t.ms]
NoneTs == [k |-> "none", h |-> 0, ms |-> 0]
TextTs == [k |-> "text", h |-> 0, ms |-> 0]

\* A timestamp of a table: a UTC datetime or NaT.
Dt(t) == [k |-> "dt", h |-> t.h, ms |-> t.ms]
NaT == [k |-> "nat", h |-> 0, ms |-> 0]

ValueCols == <<"open", "high", "low", "close", "volume">>

RawRow(ts, o, h, l, c, v) ==
    [timestamp_ms |-> ts, open |-> o, high |-> h, low |-> l, close |-> c, volume |-> v]

TableRow(o, h, l, c, v, ts) ==
    [open |-> o, high |-> h, low |-> l, close |-> c, volume |-> v, timestamp |-> ts]

----------------------------------------------------------------------------
(* _near_now_delta.  A label is a sequence of characters.  isdigit() is    *)
(* true of a non-empty string of ASCII digits and of digit-like characters *)
(* such as a superscript two, which int() rejects.                         *)

AsciiDigits == {"0", "1", "2", "3", "4", "5", "6", "7", "8", "9"}

DigitLike == {"sup2"}     \* U+00B2: isdigit() is True, int() raises ValueError

DigitValue(c) ==
    CASE c = "0" -> 0 [] c = "1" -> 1 [] c = "2" -> 2 [] c = "3" -> 3 [] c = "4" -> 4
      [] c = "5" -> 5 [] c = "6" -> 6 [] c = "7" -> 7 [] c = "8" -> 8 [] c = "9" -> 9

endswith(s, c) == Len(s) > 0 /\ s[Len(s)] = c

\* s[:-1]
ButLast(s) == IF Len(s) = 0 THEN <<>> ELSE SubSeq(s, 1, Len(s) - 1)

isdigit(s) == Len(s) > 0 /\ \A i \in 1..Len(s) : s[i] \in AsciiDigits \cup DigitLike

IntParses(s) == Len(s) > 0 /\ \A i \in 1..Len(s) : s[i] \in AsciiDigits

RECURSIVE IntOf(_)
IntOf(s) == IF Len(s) = 0 THEN 0 ELSE 10 * IntOf(ButLast(s)) + DigitValue(s[Len(s)])

\* The result: [err, hours].  err is "none" or the exception raised.
Delta(hours) == [err |-> "none", hours |-> hours]

DeltaRaised(e) == [err |-> e, hours |-> 0]

\* A faulty variant: max(2, hours), the doubling left out
_near_now_delta_undoubled(tf) ==
    IF tf = <<"1", "h">> THEN Delta(timedelta(0, 2))
    ELSE IF tf = <<"1", "d">> THEN Delta(timedelta(1, 0))
    ELSE IF endswith(tf, "h") /\ isdigit(ButLast(tf))
         THEN IF IntParses(ButLast(tf))
              THEN Delta(timedelta(0, Max(2, IntOf(ButLast(tf)))))
              ELSE DeltaRaised("ValueError")
    ELSE IF endswith(tf, "d") /\ isdigit(ButLast(tf))
         THEN IF IntParses(ButLast(tf))
              THEN Delta(timedelta(Max(1, IntOf(ButLast(tf))), 0))
              ELSE DeltaRaised("ValueError")
    ELSE Delta(timedelta(0, 2))

_near_now_delta(tf) ==
    IF tf = <<"1", "h">> THEN Delta(timedelta(0, 2))
    ELSE IF tf = <<"1", "d">> THEN Delta(timedelta(1, 0))
    ELSE IF endswith(tf, "h") /\ isdigit(ButLast(tf))
         THEN IF IntParses(ButLast(tf))
              THEN Delta(timedelta(0, Max(2, IntOf(ButLast(tf)) * 2)))
              ELSE DeltaRaised("ValueError")
    ELSE IF endswith(tf, "d") /\ isdigit(ButLast(tf))
         THEN IF IntParses(ButLast(tf))
              THEN Delta(timedelta(Max(1, IntOf(ButLast(tf))), 0))
              ELSE DeltaRaised("ValueError")
    ELSE Delta(timedelta(0, 2))

----------------------------------------------------------------------------
(* _ohlcv_to_df                                                            *)

\* pd.to_datetime(x, unit="ms", utc=True) of one field; a text that is no
\* number makes the whole conversion raise (see to_datetime_raises).
to_datetime(ts) == IF ts.k = "ms" THEN [k |-> "dt", h |-> ts.h, ms |-> ts.ms] ELSE NaT

to_datetime_raises(ohlcv) == \E i \in DOMAIN ohlcv : ohlcv[i].timestamp_ms.k = "text"

\* pd.to_numeric(x, errors="coerce") of one field
to_numeric(x) ==
    CASE x.k = "num" -> x
      [] x.k = "str" -> Num(x.v)
      [] x.k = "inf" -> Inf
      [] x.k = "infstr" -> Inf
      [] OTHER -> NaN

\* lines 53-64 for one row: the row with its timestamp and numeric columns converted
ConvertRow(r) ==
    TableRow(to_numeric(r.open), to_numeric(r.high), to_numeric(r.low),
             to_numeric(r.close), to_numeric(r.volume), to_datetime(r.timestamp_ms))

ConvertRows(ohlcv) == [i \in DOMAIN ohlcv |-> ConvertRow(ohlcv[i])]

IsNa(x) == x.k \in {"nan", "nat", "none"}

RowHasNa(r) ==
    \/ IsNa(r.timestamp)
    \/ \E i \in DOMAIN ValueCols : IsNa(r[ValueCols[i]])

\* A faulty variant: the dropna() left out
dropna_none(rows) == rows

\* df.dropna().reset_index(drop=True)
dropna(rows) == SelectSeq(rows, LAMBDA r : ~RowHasNa(r))

\* df.sort_values("timestamp"): the default kind is quicksort, which is not
\* stable, so rows of equal timestamp may come out in any order.  The set of
\* the orders it can produce.
RECURSIVE SortOrders(_, _)
SortOrders(rows, idx) ==
    IF idx = {} THEN {<<>>}
    ELSE LET least == {i \in idx : \A j \in idx :
                          InstLeq(rows[i].timestamp, rows[j].timestamp)}
         IN UNION {{<<rows[i]>> \o s : s \in SortOrders(rows, idx \ {i})} : i \in least}

\* A faulty variant: the sort left out
sort_values_unsorted(rows) == {rows}

sort_values(rows) == SortOrders(rows, DOMAIN rows)

\* .drop_duplicates(subset=["timestamp"]).reset_index(drop=True): keep="first"
RECURSIVE KeepFirst(_, _)
KeepFirst(rows, n) ==
    IF n = 0 THEN <<>>
    ELSE LET before == KeepFirst(rows, n - 1)
         IN IF \E j \in 1..(n - 1) : rows[j].timestamp = rows[n].timestamp
            THEN before
            ELSE Append(before, rows[n])

\* A faulty variant: the drop_duplicates left out
drop_duplicates_none(rows) == rows

drop_duplicates(rows) == KeepFirst(rows, Len(rows))

\* What a call can give: [err, rows]; err is "none" or the exception raised.
Table(rows) == [err |-> "none", rows |-> rows]

Raised(e) == [err |-> e, rows |-> <<>>]

\* The set of the outcomes of _ohlcv_to_df(ohlcv).
_ohlcv_to_df(ohlcv) ==
    IF to_datetime_raises(ohlcv) THEN {Raised("ValueError")}
    ELSE {Table(drop_duplicates(s)) : s \in sort_values(dropna(ConvertRows(ohlcv)))}

----------------------------------------------------------------------------
(* The cache record: df.to_csv(cache_path, index=False) and the load of    *)
(* lines 96-98.  A record on disk is [exists, header, lines]: whether the  *)
(* file exists, whether its header line has been written, and the data     *)
(* lines written so far.                                                   *)

NoFile == [exists |-> FALSE, header |-> FALSE, lines |-> <<>>]

\* open(cache_path, "w"): the file exists and is empty
OpenedFile == [exists |-> TRUE, header |-> FALSE, lines |-> <<>>]

\* to_csv of a number: its decimal text; of an infinity: "inf"
FormatNum(x) == IF x.k = "inf" THEN InfStr ELSE NumStr(x.v)

\* to_csv of a UTC timestamp is str(ts): the date and time to the second, the
\* fraction only when it is not zero, then "+00:00".  The text is [h, s, f]:
\* the hour, the second within the hour, and the fraction in ms (-1: none).
FormatTs(ts) ==
    [k |-> "iso", h |-> ts.h, s |-> ts.ms \div 1000,
     f |-> IF ts.ms % 1000 = 0 THEN -1 ELSE ts.ms % 1000]

FormatRow(r) ==
    TableRow(FormatNum(r.open), FormatNum(r.high), FormatNum(r.low),
             FormatNum(r.close), FormatNum(r.volume), FormatTs(r.timestamp))

\* the data lines of df.to_csv
to_csv(rows) == [i \in DOMAIN rows |-> FormatRow(rows[i])]

\* pd.read_csv of a numeric field
ParseNum(x) == IF x.k = "infstr" THEN Inf ELSE Num(x.v)

\* pd.to_datetime(text, utc=True) of one text
ParseTs(x) == [k |-> "dt", h |-> x.h, ms |-> x.s * 1000 + (IF x.f = -1 THEN 0 ELSE x.f)]

ParseRow(r) ==
    TableRow(ParseNum(r.open), ParseNum(r.high), ParseNum(r.low),
             ParseNum(r.close), ParseNum(r.volume), ParseTs(r.timestamp))

\* pd.to_datetime of a column of texts takes the format of the first one
\* (pandas 2 and later) and raises ValueError on a text of another format:
\* a text with a fraction among texts without, or the reverse.
MixedFormats(lines) ==
    \E i \in DOMAIN lines : (lines[i].timestamp.f = -1) # (lines[1].timestamp.f = -1)

\* Lines 96-98: the set of the outcomes of loading the record.  An empty file
\* (no header) makes read_csv raise; texts of mixed formats make to_datetime
\* raise under pandas 2 and later, while older versions parse them one by one.
load_cache(f) ==
    IF ~f.header THEN {Raised("EmptyDataError")}
    ELSE LET parsed == [i \in DOMAIN f.lines |-> ParseRow(f.lines[i])]
             loaded == {Table(drop_duplicates(s)) : s \in sort_values(parsed)}
         IN IF MixedFormats(f.lines) THEN loaded \cup {Raised("ValueError")} ELSE loaded

\* df.to_csv(cache_path, index=False), complete: the header and every line
written_file(rows) == [exists |-> TRUE, header |-> TRUE, lines |-> to_csv(rows)]

\* to_csv writes to cache_path itself, the header first and then the lines in
\* order: what the file can hold when the writing stops part-way.
partial_files(rows) ==
    {OpenedFile}
      \cup {[exists |-> TRUE, header |-> TRUE, lines |-> SubSeq(to_csv(rows), 1, n)] :
               n \in 0..Len(rows)}

\* config.py, and the arguments get_btc_hourly and get_btc_daily pass on:
\* the timeframe, and os.path.join(RAW_DATA_DIR, name) or None.
RAW_DATA_DIR == "data/raw"

NoPath == ""                                \* cache_path=None

HourlyPath == "data/raw/btc_usdt_1h.csv"

DailyPath == "data/raw/btc_usdt_1d.csv"

get_btc_hourly(cache) ==
    [timeframe |-> <<"1", "h">>, cache_path |-> IF cache THEN HourlyPath ELSE NoPath]

get_btc_daily(cache) ==
    [timeframe |-> <<"1", "d">>, cache_path |-> IF cache THEN DailyPath ELSE NoPath]

\* os.path.dirname(cache_path)
dirname(p) == IF p \in {HourlyPath, DailyPath} THEN RAW_DATA_DIR ELSE ""

----------------------------------------------------------------------------
(* The exchange adapter, exchange.fetch_ohlcv: an external collaborator.   *)
(* It answers a request with a page of rows or raises.  Its rows carry     *)
(* integer millisecond timestamps (the CCXT format); a value may be None.  *)
(* The pages explored hold at most two rows, with timestamps around the    *)
(* cursor and the near-now cutoff.                                         *)

Candle(t, v) == RawRow(MsTs(t), Num(v), Num(v), Num(v), Num(v), Num(v))

AdapterTs(s, now, hours) ==
    {InstPred(s), s, InstPlusHours(s, 1), InstMinusHours(now, hours)}

AdapterRows(s, now, hours) ==
    {Candle(t, 1) : t \in AdapterTs(s, now, hours)}
      \cup {Candle(InstPred(s), 2)}
      \cup {RawRow(MsTs(InstPlusHours(s, 1)), Num(1), Num(1), Num(1), Num(1), None)}

AdapterFirstRows(s) == {Candle(InstPlusHours(s, 1), 2)}

AdapterPages(s, now, hours) ==
    {<<>>}
      \cup {<<r>> : r \in AdapterRows(s, now, hours)}
      \cup {<<q, r>> : q \in AdapterFirstRows(s), r \in AdapterRows(s, now, hours)}

----------------------------------------------------------------------------
(* fetch_ohlcv_full                                                        *)

Now0 == Inst(500000, 0)

NoPage == [set |-> FALSE, last |-> Inst(0, 0), cursor |-> Inst(0, 0),
           now |-> Inst(0, 0), nowread |-> FALSE]

NoOutcome == [path |-> "", end |-> ""]

NoSaved == [set |-> FALSE, rows |-> <<>>]

UnsetNorm == [err |-> "unset", rows |-> <<>>]

UnsetDelta == [err |-> "unset", hours |-> 0]

\* the clock values a read of dt.datetime.now() can give
ClockReads == {0} \cup (IF elapsed < MaxElapsed THEN {1} ELSE {})

\* A faulty variant: a record without data lines taken for a miss
cache_hit_nonempty(path, f) == path # NoPath /\ f.exists /\ f.lines # <<>>

\* line 95: if cache_path and os.path.exists(cache_path)
cache_hit(path, f) == path # NoPath /\ f.exists

\* A faulty variant: days=YEARS_OF_HISTORY, the 365 left out
start_days(now) == InstMinusHours(now, timedelta(YEARS_OF_HISTORY, 0))

\* line 107: now - dt.timedelta(days=365 * YEARS_OF_HISTORY)
start(now) == InstMinusHours(now, timedelta(365 * YEARS_OF_HISTORY, 0))

\* line 123: all_rows.extend(batch)
\* A faulty variant: all_rows = batch
extend_overwrite(rows, batch) == batch

\* A faulty variant: the page's last row left out
extend_but_last(rows, batch) == rows \o SubSeq(batch, 1, Len(batch) - 1)

extend(rows, batch) == rows \o batch

\* A faulty variant: next_since < since
not_advanced_strict(next_since, s) == InstLt(next_since, s)

\* line 130: next_since <= since
not_advanced(next_since, s) == InstLeq(next_since, s)

\* A faulty variant: last_dt > now - near_now_delta
near_now_strict(last_dt, now, hours) == InstLt(InstMinusHours(now, hours), last_dt)

\* line 135: last_dt >= now - near_now_delta
near_now(last_dt, now, hours) == InstLeq(InstMinusHours(now, hours), last_dt)

\* the locals of a call that has ended
EndCall ==
    /\ pc' = "idle"
    /\ since' = Inst(0, 0)
    /\ all_rows' = <<>>
    /\ df' = <<>>

Init ==
    /\ \E cache \in BOOLEAN :
          \E args \in {get_btc_hourly(cache), get_btc_daily(cache)} :
             /\ timeframe = args.timeframe
             /\ cache_path = args.cache_path
    /\ clock = Now0
    /\ elapsed = 0
    /\ file = NoFile
    /\ pc = "idle"
    /\ exchange = FALSE
    /\ since = Inst(0, 0)
    /\ all_rows = <<>>
    /\ df = <<>>
    /\ outcome = NoOutcome
    /\ result = <<>>
    /\ calls = 0
    /\ requests = 0
    /\ received = <<>>
    /\ reqlog = <<>>
    /\ lastpage = NoPage
    /\ file_at_call = NoFile
    /\ saved = NoSaved
    /\ norm_in = <<>>
    /\ norm_out = UnsetNorm
    /\ norm_again = UnsetNorm
    /\ policy_out = UnsetDelta

\* Lines 95-99: the record exists; load it and return.
CallHit ==
    /\ pc = "idle"
    /\ calls < MaxCalls
    /\ cache_hit(cache_path, file)
    /\ \E o \in load_cache(file) :
          /\ outcome' = [path |-> "hit", end |-> IF o.err = "none" THEN "returned" ELSE o.err]
          /\ result' = o.rows
    /\ calls' = calls + 1
    /\ requests' = 0
    /\ received' = <<>>
    /\ reqlog' = <<>>
    /\ lastpage' = NoPage
    /\ file_at_call' = file
    /\ exchange' = FALSE
    /\ EndCall
    /\ UNCHANGED <<cache_path, timeframe, clock, elapsed, file, saved, norm_vars, policy_vars>>

\* Lines 101-111: no record; make the exchange and set the cursor to the start.
CallMiss ==
    /\ pc = "idle"
    /\ calls < MaxCalls
    /\ ~cache_hit(cache_path, file)
    /\ \E adv \in ClockReads :
          /\ clock' = InstPlusHours(clock, adv)
          /\ elapsed' = elapsed + adv
    /\ calls' = calls + 1
    /\ requests' = 0
    /\ received' = <<>>
    /\ reqlog' = <<>>
    /\ lastpage' = NoPage
    /\ file_at_call' = file
    /\ result' = <<>>
    /\ all_rows' = <<>>
    /\ df' = <<>>
    /\ IF _near_now_delta(timeframe).err = "none"
       THEN /\ pc' = "loop"
            /\ exchange' = TRUE
            /\ since' = start(clock')
            /\ outcome' = [path |-> "miss", end |-> ""]
       ELSE /\ pc' = "idle"
            /\ exchange' = TRUE
            /\ since' = Inst(0, 0)
            /\ outcome' = [path |-> "miss", end |-> _near_now_delta(timeframe).err]
    /\ UNCHANGED <<cache_path, timeframe, file, saved, norm_vars, policy_vars>>

\* A faulty variant: the exception caught and the loop left as on an empty page
AdapterErrorSwallowed ==
    /\ pc = "loop"
    /\ requests < MaxRequests
    /\ requests' = requests + 1
    /\ reqlog' = Append(reqlog, since)
    /\ outcome' = [path |-> "miss", end |-> "AdapterError"]
    /\ pc' = "normalize"
    /\ UNCHANGED <<cache_path, timeframe, clock, elapsed, file, calls, received,
                   lastpage, file_at_call, saved, exchange, since, all_rows, df,
                   result, norm_vars, policy_vars>>

\* Line 114 raises: the exception leaves fetch_ohlcv_full.
AdapterError ==
    /\ pc = "loop"
    /\ requests < MaxRequests
    /\ requests' = requests + 1
    /\ reqlog' = Append(reqlog, since)
    /\ outcome' = [path |-> "miss", end |-> "AdapterError"]
    /\ result' = <<>>
    /\ EndCall
    /\ UNCHANGED <<cache_path, timeframe, clock, elapsed, file, calls, received,
                   lastpage, file_at_call, saved, exchange, norm_vars, policy_vars>>

\* Lines 114-140: one iteration of the loop on the page the adapter returns.
FetchPage ==
    /\ pc = "loop"
    /\ requests < MaxRequests
    /\ requests' = requests + 1
    /\ reqlog' = Append(reqlog, since)
    /\ \E batch \in AdapterPages(since, clock, _near_now_delta(timeframe).hours) :
          IF batch = <<>>
          THEN /\ pc' = "normalize"
               /\ UNCHANGED <<clock, elapsed, since, all_rows, received, lastpage,
                              outcome, result, exchange, df>>
          ELSE IF batch[1].timestamp_ms.k # "ms" \/ batch[Len(batch)].timestamp_ms.k # "ms"
          THEN \* lines 119-120: None / 1000 raises
               /\ outcome' = [path |-> "miss", end |-> "TypeError"]
               /\ result' = <<>>
               /\ EndCall
               /\ UNCHANGED <<clock, elapsed, received, lastpage, exchange>>
          ELSE LET last_ms == Inst(batch[Len(batch)].timestamp_ms.h,
                                   batch[Len(batch)].timestamp_ms.ms)
                   next_since == InstSucc(last_ms)
               IN /\ all_rows' = extend(all_rows, batch)
                  /\ received' = Append(received, batch)
                  /\ IF not_advanced(next_since, since)
                     THEN /\ pc' = "normalize"
                          /\ lastpage' = [set |-> TRUE, last |-> last_ms, cursor |-> since,
                                          now |-> clock, nowread |-> FALSE]
                          /\ UNCHANGED <<clock, elapsed, since>>
                     ELSE \E adv \in ClockReads :
                            /\ clock' = InstPlusHours(clock, adv)
                            /\ elapsed' = elapsed + adv
                            /\ lastpage' = [set |-> TRUE, last |-> last_ms, cursor |-> since,
                                            now |-> clock', nowread |-> TRUE]
                            /\ IF near_now(last_ms, clock', _near_now_delta(timeframe).hours)
                               THEN pc' = "normalize" /\ since' = since
                               ELSE pc' = "loop" /\ since' = next_since
                  /\ UNCHANGED <<outcome, result, exchange, df>>
    /\ UNCHANGED <<cache_path, timeframe, file, calls, file_at_call, saved, norm_vars, policy_vars>>

\* Line 142: df = _ohlcv_to_df(all_rows)
Normalize ==
    /\ pc = "normalize"
    /\ \E o \in _ohlcv_to_df(all_rows) :
          IF o.err = "none"
          THEN /\ df' = o.rows
               /\ pc' = "normalized"
               /\ UNCHANGED <<outcome, result, exchange, since, all_rows>>
          ELSE /\ outcome' = [path |-> "miss", end |-> o.err]
               /\ result' = <<>>
               /\ exchange' = exchange
               /\ EndCall
    /\ UNCHANGED <<cache_path, timeframe, clock, elapsed, file, calls, requests,
                   received, reqlog, lastpage, file_at_call, saved, norm_vars, policy_vars>>

\* Lines 144 and 148 without a cache path: return df.
ReturnUncached ==
    /\ pc = "normalized"
    /\ cache_path = NoPath
    /\ outcome' = [path |-> "miss", end |-> "returned"]
    /\ result' = df
    /\ EndCall
    /\ UNCHANGED <<cache_path, timeframe, clock, elapsed, file, calls, requests,
                   received, reqlog, lastpage, file_at_call, saved, exchange, norm_vars, policy_vars>>

\* Lines 144-148 with a cache path: os.makedirs of the directory, which raises
\* for the empty directory name of a bare file name; then to_csv writes the
\* whole table to cache_path and df is returned.
Save ==
    /\ pc = "normalized"
    /\ cache_path # NoPath
    /\ IF dirname(cache_path) = ""
       THEN /\ outcome' = [path |-> "miss", end |-> "FileNotFoundError"]
            /\ result' = <<>>
            /\ UNCHANGED <<file, saved>>
       ELSE /\ file' = written_file(df)
            /\ outcome' = [path |-> "miss", end |-> "returned"]
            /\ result' = df
            /\ saved' = [set |-> TRUE, rows |-> df]
    /\ EndCall
    /\ UNCHANGED <<cache_path, timeframe, clock, elapsed, calls, requests,
                   received, reqlog, lastpage, file_at_call, exchange, norm_vars, policy_vars>>

\* The process is interrupted (KeyboardInterrupt, kill) while to_csv is
\* writing: the call ends there, and the file at cache_path holds what had
\* reached it.
InterruptSave ==
    /\ pc = "normalized"
    /\ cache_path # NoPath
    /\ dirname(cache_path) # ""
    /\ \E f \in partial_files(df) : file' = f
    /\ saved' = [set |-> FALSE, rows |-> df]
    /\ outcome' = [path |-> "miss", end |-> "interrupted"]
    /\ result' = <<>>
    /\ EndCall
    /\ received' = <<>>
    /\ reqlog' = <<>>
    /\ lastpage' = NoPage
    /\ UNCHANGED <<cache_path, timeframe, clock, elapsed, calls, requests,
                   file_at_call, exchange, norm_vars, policy_vars>>

\* The process is interrupted anywhere else in a call: nothing is written.
Interrupt ==
    /\ pc # "idle"
    /\ outcome' = [path |-> "miss", end |-> "interrupted"]
    /\ result' = <<>>
    /\ EndCall
    /\ received' = <<>>
    /\ reqlog' = <<>>
    /\ lastpage' = NoPage
    /\ UNCHANGED <<cache_path, timeframe, clock, elapsed, file, calls, requests,
                   file_at_call, saved, exchange, norm_vars, policy_vars>>

Next ==
    \/ CallHit
    \/ CallMiss
    \/ AdapterError
    \/ FetchPage
    \/ Normalize
    \/ ReturnUncached
    \/ Save
    \/ InterruptSave
    \/ Interrupt

Spec == Init /\ [][Next]_vars

----------------------------------------------------------------------------
(* The normalizer on its own: _ohlcv_to_df applied to bounded raw inputs,  *)
(* and applied again to the rows of its own result.                        *)

T1 == Inst(7, 0)          \* a whole second
T2 == Inst(7, 1500)       \* half a second past one
T3 == Inst(9, 0)

BadValues == {None, Text}

NormRows ==
    {Candle(t, v) : t \in {T1, T2}, v \in 1..2}
      \cup {Candle(T3, 1)}
      \cup {RawRow(NoneTs, Num(1), Num(1), Num(1), Num(1), Num(1))}
      \cup {RawRow(TextTs, Num(1), Num(1), Num(1), Num(1), Num(1))}
      \cup {RawRow(MsTs(T1), b, Num(1), Num(1), Num(1), Num(1)) : b \in BadValues}
      \cup {RawRow(MsTs(T1), Num(1), b, Num(1), Num(1), Num(1)) : b \in BadValues}
      \cup {RawRow(MsTs(T1), Num(1), Num(1), b, Num(1), Num(1)) : b \in BadValues}
      \cup {RawRow(MsTs(T1), Num(1), Num(1), Num(1), b, Num(1)) : b \in BadValues}
      \cup {RawRow(MsTs(T1), Num(1), Num(1), Num(1), Num(1), b) :
               b \in BadValues \cup {NaN, NumStr(3), Inf, InfStr}}

NormInputs == UNION {[1..n -> NormRows] : n \in 0..MaxNormRows}

\* The rows of a table as raw rows: [ms, open, high, low, close, volume].
rows_of(table) ==
    [i \in DOMAIN table |->
        RawRow([k |-> "ms", h |-> table[i].timestamp.h, ms |-> table[i].timestamp.ms],
               table[i].open, table[i].high, table[i].low, table[i].close,
               table[i].volume)]

InitNorm ==
    /\ norm_in \in NormInputs
    /\ norm_out = UnsetNorm
    /\ norm_again = UnsetNorm
    /\ policy_out = UnsetDelta
    /\ timeframe = <<"1", "h">>
    /\ cache_path = NoPath
    /\ clock = Now0
    /\ elapsed = 0
    /\ file = NoFile
    /\ pc = "norm"
    /\ exchange = FALSE
    /\ since = Inst(0, 0)
    /\ all_rows = <<>>
    /\ df = <<>>
    /\ outcome = NoOutcome
    /\ result = <<>>
    /\ calls = 0
    /\ requests = 0
    /\ received = <<>>
    /\ reqlog = <<>>
    /\ lastpage = NoPage
    /\ file_at_call = NoFile
    /\ saved = NoSaved

\* norm_out = _ohlcv_to_df(norm_in)
NormApply ==
    /\ norm_out = UnsetNorm
    /\ norm_out' \in _ohlcv_to_df(norm_in)
    /\ UNCHANGED <<norm_in, norm_again, fetch_vars, policy_vars>>

\* norm_again = _ohlcv_to_df(rows of norm_out)
NormAgain ==
    /\ norm_out.err = "none"
    /\ norm_again = UnsetNorm
    /\ norm_again' \in _ohlcv_to_df(rows_of(norm_out.rows))
    /\ UNCHANGED <<norm_in, norm_out, fetch_vars, policy_vars>>

NextNorm ==
    \/ NormApply
    \/ NormAgain

SpecNorm == InitNorm /\ [][NextNorm]_vars

----------------------------------------------------------------------------
(* The timeframe policy on its own: _near_now_delta applied to every label *)
(* of up to MaxLabelLen characters over LabelChars: digits, the two unit   *)
(* letters, another letter and a digit-like character.                     *)

LabelChars == {"0", "1", "2", "9", "h", "d", "x", "sup2"}

Labels == UNION {[1..n -> LabelChars] : n \in 0..MaxLabelLen}

InitPolicy ==
    /\ timeframe \in Labels
    /\ policy_out = UnsetDelta
    /\ norm_in = <<>>
    /\ norm_out = UnsetNorm
    /\ norm_again = UnsetNorm
    /\ cache_path = NoPath
    /\ clock = Now0
    /\ elapsed = 0
    /\ file = NoFile
    /\ pc = "policy"
    /\ exchange = FALSE
    /\ since = Inst(0, 0)
    /\ all_rows = <<>>
    /\ df = <<>>
    /\ outcome = NoOutcome
    /\ result = <<>>
    /\ calls = 0
    /\ requests = 0
    /\ received = <<>>
    /\ reqlog = <<>>
    /\ lastpage = NoPage
    /\ file_at_call = NoFile
    /\ saved = NoSaved

\* policy_out = _near_now_delta(timeframe)
PolicyApply ==
    /\ pc = "policy"
    /\ policy_out = UnsetDelta
    /\ policy_out' = _near_now_delta(timeframe)
    /\ UNCHANGED <<fetch_vars, norm_vars>>

NextPolicy == PolicyApply

SpecPolicy == InitPolicy /\ [][NextPolicy]_vars

----------------------------------------------------------------------------
(* The loop of lines 113-140 on its own, for an adapter that never raises  *)
(* and a clock that is read anew in every iteration.  Only the cursor and  *)
(* the guards are kept: all_rows, which grows with every page, is left     *)
(* out.  The guards read differences of instants only, so the instants are *)
(* kept relative to the latest reading of the clock: when 'now' is read    *)
(* b ms later, clock stays and since moves b ms back.  Between two         *)
(* readings of line 134 lies the sleep of line 140, so b is at least       *)
(* SLEEP_SECONDS.                                                          *)

SleepMs == 200            \* config.py: SLEEP_SECONDS = 0.2, in ms

\* ms between two readings of 'now': the sleep, and a request of 0 or 1 ms
ClockAdvances == {SleepMs, SleepMs + 1}

\* The last timestamps of the pages explored: stagnant (before the cursor),
\* the cursor itself (an advance of 1 ms), an advance of SleepMs and of
\* SleepMs + 1, and a candle within the near-now cutoff of the next reading
\* of 'now'.
LoopTs(s, now, hours) ==
    {InstPred(s), s, InstPlusMs(s, SleepMs - 1), InstPlusMs(s, SleepMs),
     InstMinusHours(InstPlusMs(now, SleepMs + 1), hours)}

LoopPages(s, now, hours) == {<<>>} \cup {<<Candle(t, 1)>> : t \in LoopTs(s, now, hours)}

InitLoop ==
    /\ timeframe \in {get_btc_hourly(FALSE).timeframe, get_btc_daily(FALSE).timeframe}
    /\ cache_path = NoPath
    /\ clock = Now0
    /\ since = start(Now0)
    /\ pc = "loop"
    /\ exchange = TRUE
    /\ outcome = [path |-> "miss", end |-> ""]
    /\ elapsed = 0
    /\ file = NoFile
    /\ all_rows = <<>>
    /\ df = <<>>
    /\ result = <<>>
    /\ calls = 1
    /\ requests = 0
    /\ received = <<>>
    /\ reqlog = <<>>
    /\ lastpage = NoPage
    /\ file_at_call = NoFile
    /\ saved = NoSaved
    /\ norm_in = <<>>
    /\ norm_out = UnsetNorm
    /\ norm_again = UnsetNorm
    /\ policy_out = UnsetDelta

\* Lines 114-140: one iteration, the cursor and the guards of FetchPage.
LoopIteration ==
    /\ pc = "loop"
    /\ \E batch \in LoopPages(since, clock, _near_now_delta(timeframe).hours) :
          IF batch = <<>>
          THEN pc' = "normalize" /\ since' = since
          ELSE LET last_ms == Inst(batch[Len(batch)].timestamp_ms.h,
                                   batch[Len(batch)].timestamp_ms.ms)
                   next_since == InstSucc(last_ms)
               IN IF not_advanced(next_since, since)
                  THEN pc' = "normalize" /\ since' = since
                  ELSE \E b \in ClockAdvances :
                         IF near_now(last_ms, InstPlusMs(clock, b),
                                     _near_now_delta(timeframe).hours)
                         THEN pc' = "normalize" /\ since' = since
                         ELSE /\ InstLeq(InstMinusMs(start(clock), MaxLagMs),
                                         InstMinusMs(next_since, b))
                              /\ InstLeq(InstMinusMs(next_since, b), start(clock))
                              /\ pc' = "loop"
                              /\ since' = InstMinusMs(next_since, b)
    /\ UNCHANGED <<cache_path, timeframe, clock, elapsed, file, exchange, all_rows, df,
                   outcome, result, calls, requests, received, reqlog, lastpage,
                   file_at_call, saved, norm_vars, policy_vars>>

\* Lines 142-148: the loop is left and the call returns.
LoopReturn ==
    /\ pc = "normalize"
    /\ outcome' = [path |-> "miss", end |-> "returned"]
    /\ EndCall
    /\ UNCHANGED <<cache_path, timeframe, clock, elapsed, file, exchange, result,
                   calls, requests, received, reqlog, lastpage, file_at_call, saved,
                   norm_vars, policy_vars>>

NextLoop ==
    \/ LoopIteration
    \/ LoopReturn

\* The code runs on: an enabled iteration or return is taken.
SpecLoop ==
    InitLoop /\ [][NextLoop]_vars /\ WF_vars(LoopIteration) /\ WF_vars(LoopReturn)

----------------------------------------------------------------------------
(* The claims.                                                             *)

Range(q) == {q[i] : i \in DOMAIN q}

RECURSIVE Flatten(_)
Flatten(pages) == IF pages = <<>> THEN <<>> ELSE Head(pages) \o Flatten(Tail(pages))

StrictlyIncreasing(rows) ==
    \A i \in 1..(Len(rows) - 1) : InstLt(rows[i].timestamp, rows[i + 1].timestamp)

\* the timestamp of the last row of a page
PageLast(page) == Inst(page[Len(page)].timestamp_ms.h, page[Len(page)].timestamp_ms.ms)

\* a - b for a >= b
InstDiff(a, b) ==
    IF a.ms >= b.ms THEN Inst(a.h - b.h, a.ms - b.ms)
    ELSE Inst(a.h - b.h - 1, a.ms + HourMs - b.ms)

\* the near-now cutoff of the timeframe, in hours: 2 hours for "1h", 1 day for "1d"
CutoffHours == IF timeframe = <<"1", "h">> THEN 2 ELSE 24

MissReturned == pc = "idle" /\ outcome = [path |-> "miss", end |-> "returned"]

\* The pages received advance by a fixed step, all are older than now minus
\* the cutoff, and the request after the last of them returned an empty page.
FixedStepThenEmpty ==
    /\ received # <<>>
    /\ requests = Len(received) + 1
    /\ \A i \in 1..(Len(received) - 1) :
          /\ InstLt(PageLast(received[i]), PageLast(received[i + 1]))
          /\ InstDiff(PageLast(received[i + 1]), PageLast(received[i]))
               = InstDiff(PageLast(received[2]), PageLast(received[1]))
    /\ \A i \in 1..Len(received) :
          InstLt(PageLast(received[i]), InstMinusHours(clock, CutoffHours))

\* C1: on a cache miss where the adapter returns non-empty pages advancing by a
\* fixed step and then an empty page, the loop has ended (an empty page is
\* never followed by a request) and the table returned is the normalizer's
\* result for the concatenation, in request order, of the pages received.
C1_FixedStepPagesConcatenated ==
    /\ pc = "loop" => requests = Len(received)
    /\ (MissReturned /\ FixedStepThenEmpty)
          => Table(result) \in _ohlcv_to_df(Flatten(received))

C1_Witness ==
    /\ MissReturned
    /\ FixedStepThenEmpty
    /\ Len(received) = 2
    /\ Len(result) >= 3

\* C2: once the adapter has returned a non-empty page whose last timestamp
\* + 1 ms is at or before the cursor it was requested with, that page's request
\* is the call's last one, the loop is left, and the call returns.
C2_NonAdvancementStops ==
    (lastpage.set /\ InstLeq(InstSucc(lastpage.last), lastpage.cursor))
       => /\ pc \in {"normalize", "normalized", "idle"}
          /\ requests = Len(received)
          /\ pc = "idle" => outcome = [path |-> "miss", end |-> "returned"]

C2_Witness ==
    /\ lastpage.set
    /\ InstSucc(lastpage.last) = lastpage.cursor
    /\ Len(received) = 2
    /\ MissReturned

\* C3: once the adapter has returned a non-empty page whose last timestamp is
\* at or after now minus the timeframe's cutoff, that page's request is the
\* call's last one, also when the page advanced the cursor.
C3_NearNowStops ==
    (lastpage.set /\ InstLeq(InstMinusHours(lastpage.now, CutoffHours), lastpage.last))
       => /\ pc \in {"normalize", "normalized", "idle"}
          /\ requests = Len(received)

C3_Witness ==
    /\ lastpage.set
    /\ lastpage.nowread
    /\ lastpage.last = InstMinusHours(lastpage.now, CutoffHours)
    /\ InstLt(lastpage.cursor, InstSucc(lastpage.last))
    /\ timeframe = <<"1", "h">>
    /\ MissReturned

\* C4: a call that finds a record at its cache path makes no adapter request,
\* does not construct the exchange, and what it returns is what loading that
\* record gives, however old the record's rows are.
C4_CacheHitShortCircuits ==
    (calls > 0 /\ cache_path # NoPath /\ file_at_call.exists)
       => /\ pc = "idle"
          /\ outcome.path = "hit"
          /\ requests = 0
          /\ reqlog = <<>>
          /\ ~exchange
          /\ outcome.end = "returned" => Table(result) \in load_cache(file_at_call)

C4_Witness ==
    /\ outcome = [path |-> "hit", end |-> "returned"]
    /\ result # <<>>
    /\ elapsed > 0
    /\ InstLt(result[Len(result)].timestamp, InstMinusHours(clock, CutoffHours))

\* C5: when the adapter fails on a request, the call ends in error there with
\* no table, that request is its last one, and the cache record is what it was
\* when the call started: absent.
C5_AdapterErrorAborts ==
    outcome.end = "AdapterError"
       => /\ pc = "idle"
          /\ result = <<>>
          /\ requests = Len(received) + 1
          /\ file = file_at_call
          /\ ~file.exists

C5_Witness ==
    /\ outcome.end = "AdapterError"
    /\ Len(received) = 2
    /\ cache_path # NoPath

\* C6: the table of line 142 and every table a call returns, on the miss path
\* and on the hit path, has strictly increasing timestamps.
C6_TimestampsStrictlyIncrease ==
    /\ StrictlyIncreasing(df)
    /\ outcome.end = "returned" => StrictlyIncreasing(result)

\* a miss that returned three rows from pages holding a repeated timestamp and
\* a row out of order
C6_Witness ==
    /\ MissReturned
    /\ Len(result) >= 3
    /\ Len(Flatten(received)) > Len(result)
    /\ ~StrictlyIncreasing(ConvertRows(Flatten(received)))
    /\ \E i \in 1..(Len(Flatten(received)) - 1) :
          InstLt(PageLast(<<Flatten(received)[i + 1]>>), PageLast(<<Flatten(received)[i]>>))

\* a raw field that is null or no number
BadField(x) == x.k \in {"none", "nan", "text"}

\* a row with a null or non-numeric value in open, high, low, close or volume
InvalidRow(r) == \E i \in DOMAIN ValueCols : BadField(r[ValueCols[i]])

\* a row whose six fields are all numbers
ValidRow(r) == ~InvalidRow(r) /\ r.timestamp_ms.k = "ms"

\* C7: of the raw rows given to the normalizer, every row with a null or
\* non-numeric value is absent from its table, and every valid row whose
\* timestamp no other valid row has is in the table, with its values.
C7_InvalidDroppedValidKept ==
    norm_out.err = "none"
       => \A i \in DOMAIN norm_in :
             /\ InvalidRow(norm_in[i]) => ConvertRow(norm_in[i]) \notin Range(norm_out.rows)
             /\ (/\ ValidRow(norm_in[i])
                 /\ \A j \in DOMAIN norm_in :
                       (ValidRow(norm_in[j]) /\ norm_in[j] # norm_in[i])
                          => norm_in[j].timestamp_ms # norm_in[i].timestamp_ms)
                   => ConvertRow(norm_in[i]) \in Range(norm_out.rows)

C7_Witness ==
    /\ norm_out.err = "none"
    /\ Len(norm_in) = 3
    /\ Len(norm_out.rows) = 1
    /\ InvalidRow(norm_in[1])
    /\ ValidRow(norm_in[2])
    /\ InvalidRow(norm_in[3])
    /\ norm_in[1].timestamp_ms = norm_in[2].timestamp_ms

\* C8: the normalizer applied to the rows of its own result gives that result.
C8_NormalizeIdempotent ==
    norm_again # UnsetNorm => norm_again = norm_out

C8_Witness ==
    /\ norm_again # UnsetNorm
    /\ Len(norm_in) = 3
    /\ Len(norm_out.rows) = 2
    /\ norm_in[1].timestamp_ms = norm_in[3].timestamp_ms
    /\ InstLt(PageLast(<<norm_in[2]>>), PageLast(<<norm_in[1]>>))

\* C9: after a miss call has written the cache and returned a non-empty table,
\* a later call that hits that record returns the same table.
C9_CacheRoundTrip ==
    (/\ pc = "idle"
     /\ outcome.path = "hit"
     /\ saved.set
     /\ saved.rows # <<>>
     /\ file = written_file(saved.rows))
       => /\ outcome.end = "returned"
          /\ result = saved.rows

\* C10: between calls, the record at the cache path is absent or holds the
\* whole of the table the last to_csv was given.
C10_RecordNeverPartial ==
    (pc = "idle" /\ file.exists) => file = written_file(saved.rows)

\* C11: every adapter request carries the call's cursor, an instant; the first
\* request of a call carries now - 365 * YEARS_OF_HISTORY days, for the now
\* read when the call started; and of two consecutive requests the later one
\* carries the last timestamp of the page returned for the earlier one plus
\* 1 ms, which is strictly after what the earlier one carried.
C11_CursorDiscipline ==
    [][/\ requests' = requests + 1
          => /\ reqlog' = Append(reqlog, since)
             /\ requests = 0
                   => since = Inst(clock.h - 24 * 365 * YEARS_OF_HISTORY, clock.ms)
       /\ \A i \in 1..(Len(reqlog') - 1) :
             /\ reqlog'[i + 1] = InstSucc(PageLast(received'[i]))
             /\ InstLt(reqlog'[i], reqlog'[i + 1])]_vars

\* three requests of one call: the second 1 ms after the first, the third later
C11_Witness ==
    /\ Len(reqlog) = 3
    /\ reqlog[2] = InstSucc(reqlog[1])
    /\ InstLt(InstSucc(reqlog[2]), reqlog[3])
    /\ elapsed > 0

\* the decimal digit d as a character
DigitChar(d) ==
    CASE d = 0 -> "0" [] d = 1 -> "1" [] d = 2 -> "2" [] d = 3 -> "3" [] d = 4 -> "4"
      [] d = 5 -> "5" [] d = 6 -> "6" [] d = 7 -> "7" [] d = 8 -> "8" [] d = 9 -> "9"

\* the decimal text of the positive integer n
RECURSIVE DecimalText(_)
DecimalText(n) ==
    IF n < 10 THEN <<DigitChar(n)>>
    ELSE Append(DecimalText(n \div 10), DigitChar(n % 10))

\* the positive integers whose decimal text has at most n digits
RECURSIVE UpToDigits(_)
UpToDigits(n) ==
    IF n <= 0 THEN {}
    ELSE {10 * m + d : m \in UpToDigits(n - 1) \cup {0}, d \in 0..9} \ {0}

\* C12: _near_now_delta gives 2 hours for "1h", 1 day for "1d", and for every
\* positive integer N the larger of 2 hours and 2N hours for the label <N>h
\* and the larger of 1 day and N days for the label <N>d.
C12_PolicyValues ==
    policy_out # UnsetDelta
       => /\ timeframe = <<"1", "h">> => policy_out = [err |-> "none", hours |-> 2]
          /\ timeframe = <<"1", "d">> => policy_out = [err |-> "none", hours |-> 24]
          /\ \A N \in UpToDigits(Len(timeframe) - 1) :
                /\ timeframe = Append(DecimalText(N), "h")
                      => policy_out = [err |-> "none",
                                       hours |-> IF 2 * N > 2 THEN 2 * N ELSE 2]
                /\ timeframe = Append(DecimalText(N), "d")
                      => policy_out = [err |-> "none",
                                       hours |-> IF N > 1 THEN 24 * N ELSE 24]

\* the policy applied to "12h": 24 hours
C12_Witness ==
    /\ timeframe = <<"1", "2", "h">>
    /\ policy_out = [err |-> "none", hours |-> 24]

\* a label of the form <N>h or <N>d: decimal digits and then the unit letter
OfTheForm(tf) ==
    /\ Len(tf) >= 2
    /\ tf[Len(tf)] \in {"h", "d"}
    /\ \A i \in 1..(Len(tf) - 1) : tf[i] \in AsciiDigits

\* C16: for every label _near_now_delta returns a duration and does not raise,
\* and for every label that is not of the form <N>h or <N>d it returns 2 hours.
C16_PolicyNeverFails ==
    policy_out # UnsetDelta
       => /\ policy_out.err = "none"
          /\ ~OfTheForm(timeframe) => policy_out.hours = 2

\* C13: every open, high, low, close and volume of every row of the table the
\* normalizer returns is a finite number.
C13_FieldsFinite ==
    norm_out.err = "none"
       => \A i \in DOMAIN norm_out.rows : \A c \in DOMAIN ValueCols :
             norm_out.rows[i][ValueCols[c]].k = "num"

\* a raw row with an infinite value
InfiniteRow(r) == \E c \in DOMAIN ValueCols : r[ValueCols[c]].k \in {"inf", "infstr"}

\* C14: of the valid rows that share a timestamp, the row in the table is the
\* one that comes first in the input.  Stated for inputs without infinite
\* values, whose valid rows are the rows with six numbers.
C14_FirstOccurrenceKept ==
    (norm_out.err = "none" /\ \A i \in DOMAIN norm_in : ~InfiniteRow(norm_in[i]))
       => \A i \in DOMAIN norm_in :
             (/\ ValidRow(norm_in[i])
              /\ \A j \in 1..(i - 1) :
                    ValidRow(norm_in[j])
                       => norm_in[j].timestamp_ms # norm_in[i].timestamp_ms)
                => ConvertRow(norm_in[i]) \in Range(norm_out.rows)

\* C15: for every sequence of 6-field raw rows the normalizer returns a table
\* and does not end in an error.
C15_NormalizerTotal ==
    norm_out # UnsetNorm => norm_out.err = "none"

\* C17: for an adapter that never raises, whatever pages it returns, the loop
\* makes finitely many requests and the call returns.
C17_FetchTerminates == <>(pc = "idle")

\* C18: whichever way the loop ended, the table a cache-miss call returns is
\* the normalizer's result for the concatenation, in request order, of every
\* non-empty page the adapter returned to it, the last one included.
C18_NoPageLost ==
    MissReturned => Table(result) \in _ohlcv_to_df(Flatten(received))

\* a call whose second page made the near-now guard fire, and whose table
\* holds that page's last row
C18_Witness ==
    /\ MissReturned
    /\ Len(received) = 2
    /\ lastpage.nowread
    /\ InstLeq(InstMinusHours(lastpage.now, CutoffHours), lastpage.last)
    /\ ConvertRow(received[2][Len(received[2])]) \in Range(result)

\* C19: a cache-miss call with a cache path that returns has written the
\* record of its table, also when the table has no rows; from then on no call
\* fetches: every later call is a hit that makes no adapter request and
\* returns that table.
C19_FetchedOnce ==
    /\ (MissReturned /\ cache_path # NoPath)
          => /\ saved = [set |-> TRUE, rows |-> result]
             /\ file = written_file(result)
    /\ saved.set
          => /\ pc = "idle"
             /\ file = written_file(saved.rows)
             /\ outcome.path = "hit"
                   => /\ requests = 0
                      /\ outcome.end = "returned"
                      /\ result = saved.rows

====
